---- MODULE Spec2Model ----
(***************************************************************************)
(* Model of the entity store of the "Anonymiseur Juridique RGPD" front     *)
(* end: the React component state (document, entities, grouping selection, *)
(* page, mode) and the handlers that mutate it.  Three variants of the     *)
(* App component exist in the repository and are modelled side by side:    *)
(*   "part_000"  src/unnamed/part_000                                      *)
(*   "guide"     the App.js listed in src/installation_guide.md            *)
(*   "appjs"     src/frontend/src/App.js                                   *)
(* Text (document content, entity text, replacements, form fields) is a    *)
(* sequence of one-character strings; entity ids are strings.              *)
(***************************************************************************)
EXTENDS Integers, Sequences, FiniteSets, TLC

\* ------------------------------------------------------------------ bounds
MaxEntities == 2
MaxDrops == 2

\* ------------------------------------------------------------------ text
WhiteSpace == {" "}

RECURSIVE TrimStart(_)
TrimStart(s) ==
  IF s = <<>> THEN s
  ELSE IF Head(s) \in WhiteSpace THEN TrimStart(Tail(s)) ELSE s

RECURSIVE TrimEnd(_)
TrimEnd(s) ==
  IF s = <<>> THEN s
  ELSE IF s[Len(s)] \in WhiteSpace THEN TrimEnd(SubSeq(s, 1, Len(s) - 1)) ELSE s

\* String.prototype.trim
Trim(s) == TrimEnd(TrimStart(s))

\* original[start:end] for a half-open span of 0-based offsets
Slice(s, start, end) == SubSeq(s, start + 1, end)

Digits == <<"0", "1", "2", "3", "4", "5", "6", "7", "8", "9">>

DigitValue(c) == CHOOSE d \in 0..9 : Digits[d + 1] = c

IsDigit(c) == \E d \in 0..9 : Digits[d + 1] = c

\* Number.prototype.toString of a non-negative integer
RECURSIVE NumberToString(_)
NumberToString(n) ==
  IF n < 10 THEN Digits[n + 1]
  ELSE NumberToString(n \div 10) \o Digits[(n % 10) + 1]

\* the longest prefix of s made of decimal digits
RECURSIVE DigitPrefix(_)
DigitPrefix(s) ==
  IF s = <<>> THEN <<>>
  ELSE IF IsDigit(Head(s)) THEN <<Head(s)>> \o DigitPrefix(Tail(s)) ELSE <<>>

RECURSIVE DigitsToNat(_)
DigitsToNat(s) ==
  IF s = <<>> THEN 0
  ELSE 10 * DigitsToNat(SubSeq(s, 1, Len(s) - 1)) + DigitValue(s[Len(s)])

\* parseInt(string): leading white space, an optional sign, then the longest
\* run of digits; NaN when there is no digit.
parseInt(str) ==
  LET s == TrimStart(str)
      neg == s # <<>> /\ Head(s) = "-"
      signed == s # <<>> /\ Head(s) \in {"-", "+"}
      body == DigitPrefix(IF signed THEN Tail(s) ELSE s)
  IN  IF body = <<>> THEN [nan |-> TRUE, n |-> 0]
      ELSE [nan |-> FALSE, n |-> IF neg THEN 0 - DigitsToNat(body) ELSE DigitsToNat(body)]

\* ------------------------------------------------------------------ entities
\* Entity: [id, text, type, source, confidence, replacement, positions, selected]
\* confidence is held in hundredths (100 stands for 1.0).
Entity(id, text, type, source, confidence, replacement, positions, selected) ==
  [ id |-> id, text |-> text, type |-> type, source |-> source,
    confidence |-> confidence, replacement |-> replacement,
    positions |-> positions, selected |-> selected ]

Ids(ents) == { ents[i].id : i \in DOMAIN ents }

\* two half-open spans share at least one offset
Overlaps(p, q) == p.start < q.end /\ q.start < p.end

\* ------------------------------------------------------------------ backend
\* The /process endpoint is outside the repository's sources: it is modelled
\* from its interface.  It answers with a reconciled entity set over the
\* content it received: pairwise non-overlapping spans, text equal to the
\* slice, default replacement, selected, ids given in order.
Spans(content) ==
  { [start |-> s, end |-> e] : s \in 0..(Len(content) - 1), e \in 1..Len(content) }

DetectableSpans(content) ==
  { p \in Spans(content) :
      /\ p.start < p.end
      /\ Trim(Slice(content, p.start, p.end)) = Slice(content, p.start, p.end) }

SpanSets(content) ==
  { S \in SUBSET DetectableSpans(content) :
      /\ Cardinality(S) <= MaxEntities
      /\ \A p \in S : \A q \in S : p # q => ~Overlaps(p, q) }

RECURSIVE SortSpans(_)
SortSpans(S) ==
  IF S = {} THEN <<>>
  ELSE LET m == CHOOSE p \in S : \A q \in S : p.start <= q.start
       IN  <<m>> \o SortSpans(S \ {m})

DefaultReplacement(type) ==
  CASE type = "person" -> <<"[", "P", "E", "R", "S", "O", "N", "N", "E", "]">>
    [] type = "phone" -> <<"[", "T", "E", "L", "E", "P", "H", "O", "N", "E", "]">>
    [] OTHER -> <<"[", "E", "M", "A", "I", "L", "]">>

\* repeated occurrences of one text share one entity
RECURSIVE GroupOccurrences(_, _, _, _)
GroupOccurrences(content, spans, source, acc) ==
  IF spans = <<>> THEN acc
  ELSE LET p == Head(spans)
           t == Slice(content, p.start, p.end)
           type == IF source = "REGEX" THEN "phone" ELSE "person"
           conf == IF source = "REGEX" THEN 100 ELSE 80
           known == { i \in DOMAIN acc : acc[i].text = t }
           next ==
             IF known = {}
             THEN Append(acc, Entity("e" \o NumberToString(Len(acc) + 1), t, type, source,
                                     conf, DefaultReplacement(type), <<p>>, TRUE))
             ELSE [ i \in DOMAIN acc |->
                      IF i \in known
                      THEN [acc[i] EXCEPT !.positions = Append(@, p)]
                      ELSE acc[i] ]
       IN  GroupOccurrences(content, Tail(spans), source, next)

ModeSource(mode) ==
  CASE mode = "advanced" -> "NER"
    [] mode = "ollama" -> "OLLAMA"
    [] OTHER -> "REGEX"

\* the optional detector ran (mode_used = mode) or the pipeline degraded to
\* the pattern detector alone (mode_used = "standard")
BackendResponses(content, mode) ==
  { [ entities |-> GroupOccurrences(content, SortSpans(S), ModeSource(used), <<>>),
      mode_used |-> used ] :
      S \in SpanSets(content), used \in {mode, "standard"} }

\* ------------------------------------------------------------------ store
\* faulty variant: the comparison of ids is inverted
toggleEntityInverted(ents, entityId) ==
  [ i \in DOMAIN ents |->
      IF ents[i].id # entityId
      THEN [ents[i] EXCEPT !.selected = ~@]
      ELSE ents[i] ]

\* entities.map(entity => entity.id === entityId
\*   ? { ...entity, selected: !entity.selected } : entity)
toggleEntity(ents, entityId) ==
  [ i \in DOMAIN ents |->
      IF ents[i].id = entityId
      THEN [ents[i] EXCEPT !.selected = ~@]
      ELSE ents[i] ]

\* the select-all button: every entity gets selected = !allSelected
toggleAll(ents) ==
  LET allSelected == \A i \in DOMAIN ents : ents[i].selected
  IN  [ i \in DOMAIN ents |-> [ents[i] EXCEPT !.selected = ~allSelected] ]

\* faulty variant: the new value is written to the text field
updateEntityText(ents, entityId, newReplacement) ==
  [ i \in DOMAIN ents |->
      IF ents[i].id = entityId
      THEN [ents[i] EXCEPT !.text = newReplacement]
      ELSE ents[i] ]

\* part_000: no validation of the new value
updateEntityReplacement(ents, entityId, newReplacement) ==
  [ i \in DOMAIN ents |->
      IF ents[i].id = entityId
      THEN [ents[i] EXCEPT !.replacement = newReplacement]
      ELSE ents[i] ]

\* installation_guide: empty or blank values are refused, the value is trimmed
updateEntityReplacementGuide(ents, entityId, newReplacement) ==
  IF newReplacement = <<>> \/ Trim(newReplacement) = <<>>
  THEN ents
  ELSE [ i \in DOMAIN ents |->
           IF ents[i].id = entityId
           THEN [ents[i] EXCEPT !.replacement = Trim(newReplacement)]
           ELSE ents[i] ]

\* faulty variant: the filter keeps the deleted id instead of the others
deleteEntityInverted(ents, entityId) ==
  SelectSeq(ents, LAMBDA e : e.id = entityId)

\* entities.filter(entity => entity.id !== entityId)
RECURSIVE deleteEntity(_, _)
deleteEntity(ents, entityId) ==
  IF ents = <<>> THEN <<>>
  ELSE IF Head(ents).id # entityId
       THEN <<Head(ents)>> \o deleteEntity(Tail(ents), entityId)
       ELSE deleteEntity(Tail(ents), entityId)

\* selectedEntities.filter(id => id !== entityId)
removeFromSelection(sel, entityId) == sel \ {entityId}

\* [...selectedEntities, entity.id]
addToSelection(sel, entityId) == sel \cup {entityId}

\* selectedEntities.includes(id)
Includes(sel, id) == id \in sel

\* faulty variant: the shared replacement goes to the entities not ticked
groupEntitiesInverted(ents, sel, groupReplacement) ==
  [ i \in DOMAIN ents |->
      IF ~(ents[i].id \in sel)
      THEN [ents[i] EXCEPT !.replacement = groupReplacement]
      ELSE ents[i] ]

\* the map of createGroup: the ticked entities take the shared replacement
groupEntities(ents, sel, groupReplacement) ==
  [ i \in DOMAIN ents |->
      IF Includes(sel, ents[i].id)
      THEN [ents[i] EXCEPT !.replacement = groupReplacement]
      ELSE ents[i] ]

\* window.prompt answers null (cancelled) or the typed string
PromptResults(values) ==
  { [cancelled |-> TRUE, value |-> <<>>] } \cup
  { [cancelled |-> FALSE, value |-> v] : v \in values }

\* part_000: if (groupReplacement)
groupAccepted(answer) == ~answer.cancelled /\ answer.value # <<>>

\* installation_guide: if (groupReplacement && groupReplacement.trim())
groupAcceptedGuide(answer) ==
  ~answer.cancelled /\ answer.value # <<>> /\ Trim(answer.value) # <<>>

\* part_000: the entity built by addManualEntity, id = Date.now().toString()
newManualEntity(clock, text, type, replacement, startPos, endPos) ==
  Entity(NumberToString(clock), text, type, "MANUAL", 100, replacement,
         << [start |-> startPos, end |-> endPos] >>, TRUE)

\* ------------------------------------------------------------------ inputs
Variants == {"part_000", "guide", "appjs"}

\* variants that define the curation handlers (edit, delete, group)
CurationVariants == {"part_000", "guide"}

\* files the operator may drop: their contents have no text in common
FileA == [filename |-> "a.txt", content |-> <<" ", "a", "b">>]

FileB == [filename |-> "b.txt", content |-> <<"c">>]

Files == {FileA, FileB}

\* values typed in the replacement editor
TextInputs == { <<>>, <<" ", "Y">> }

\* values typed in the group prompt
PromptInputs == { <<" ">>, <<" ", "G">> }

\* submissions of the manual-add form (text, type, replacement, startPos, endPos)
ManualForms ==
  { [text |-> <<"a">>, type |-> "person", replacement |-> <<"X">>,
     startPos |-> <<"1">>, endPos |-> <<"2">>] }

\* values Date.now() may return; the wall clock is neither strictly increasing
\* nor monotonic
ClockValues == {1, 2}

NullId == "null"

NoDocument == [isNull |-> TRUE, filename |-> "", content |-> <<>>]

VARIABLES
  variant,           \* which App component is running
  currentMode,       \* useState('standard')
  document,          \* useState(null)
  entities,          \* useState([])
  processing,        \* useState(false)
  currentPage,       \* useState('upload')
  systemStatus,      \* useState({spacy_available: false, ollama_available: false})
  selectedEntities,  \* useState([])  ids ticked for grouping, held as a set:
                     \* an id is appended only when absent, and the array is
                     \* read through includes, filter and length alone
  editingEntity,     \* useState(null)
  showManualAdd,     \* useState(false)
  healthPending,     \* the GET /health of the mount effect is in flight
  reading,           \* FileReader reads in progress: <<[file, mode]>>
  pending,           \* POST /process requests in flight
  drops,             \* number of files dropped so far
  backend,           \* the call the backend pipeline is serving, and its result
  generation,        \* the POST /generate-document of the last click and what
                     \* its handler did
  searchTerm,        \* useState('')
  sourceFilter       \* useState('all')

vars ==
  << variant, currentMode, document, entities, processing, currentPage,
     systemStatus, selectedEntities, editingEntity, showManualAdd,
     healthPending, reading, pending, drops, backend, generation,
     searchTerm, sourceFilter >>

\* "Generer DOCX" has not been clicked, or its alert was closed
NotGenerated == [stage |-> "idle", download |-> FALSE, notice |-> "none"]

\* no call is being served
Idle == [op |-> "idle", input |-> <<>>, output |-> <<>>, done |-> FALSE]

Init ==
  /\ variant \in Variants
  /\ currentMode = "standard"
  /\ document = NoDocument
  /\ entities = <<>>
  /\ processing = FALSE
  /\ currentPage = "upload"
  /\ systemStatus = [spacy_available |-> FALSE, ollama_available |-> FALSE]
  /\ selectedEntities = {}
  /\ editingEntity = NullId
  /\ showManualAdd = FALSE
  /\ healthPending = TRUE
  /\ reading = <<>>
  /\ pending = <<>>
  /\ drops = 0
  /\ backend = Idle
  /\ generation = NotGenerated
  /\ searchTerm = <<>>
  /\ sourceFilter = "all"

\* ------------------------------------------------------------------ start-up
\* GET /health answered: setSystemStatus(response.data)
checkStatusOk ==
  /\ healthPending
  /\ \E spacy \in BOOLEAN, ollama \in BOOLEAN :
       systemStatus' = [spacy_available |-> spacy, ollama_available |-> ollama]
  /\ healthPending' = FALSE
  /\ UNCHANGED << searchTerm, sourceFilter, generation, backend, variant, currentMode, document, entities, processing, currentPage,
                  selectedEntities, editingEntity, showManualAdd, reading, pending,
                  drops >>

\* GET /health failed: the flags stay (or are set back to) false
checkStatusFailed ==
  /\ healthPending
  /\ systemStatus' = [spacy_available |-> FALSE, ollama_available |-> FALSE]
  /\ healthPending' = FALSE
  /\ UNCHANGED << searchTerm, sourceFilter, generation, backend, variant, currentMode, document, entities, processing, currentPage,
                  selectedEntities, editingEntity, showManualAdd, reading, pending,
                  drops >>

\* ------------------------------------------------------------------ upload page
SetMode(mode) ==
  /\ currentMode' = mode
  /\ UNCHANGED << searchTerm, sourceFilter, generation, backend, variant, document, entities, processing, currentPage, systemStatus,
                  selectedEntities, editingEntity, showManualAdd, healthPending,
                  reading, pending, drops >>

selectStandard ==
  /\ currentPage = "upload"
  /\ SetMode("standard")

\* faulty variant: the advanced card ignores the capability flag
selectAdvancedUnguarded ==
  /\ currentPage = "upload"
  /\ SetMode("advanced")

\* onClick={() => systemStatus.spacy_available && setCurrentMode('advanced')}
selectAdvanced ==
  /\ currentPage = "upload"
  /\ systemStatus.spacy_available
  /\ SetMode("advanced")

\* only the ModeCard list of frontend/src/App.js makes the Ollama card clickable
selectOllama ==
  /\ currentPage = "upload"
  /\ variant = "appjs"
  /\ systemStatus.ollama_available
  /\ SetMode("ollama")

\* a file is dropped: the reader starts, its onload closes over currentMode
onDrop ==
  /\ currentPage = "upload"
  /\ drops < MaxDrops
  /\ \E file \in Files :
       reading' = Append(reading, [file |-> file, mode |-> currentMode])
  /\ drops' = drops + 1
  /\ UNCHANGED << searchTerm, sourceFilter, generation, backend, variant, currentMode, document, entities, processing, currentPage,
                  systemStatus, selectedEntities, editingEntity, showManualAdd,
                  healthPending, pending >>

RemoveAt(seq, i) == SubSeq(seq, 1, i - 1) \o SubSeq(seq, i + 1, Len(seq))

\* reader.onload: the document is stored and POST /process is sent
readerOnload ==
  \E i \in DOMAIN reading :
    LET r == reading[i]
        content == r.file.content
        refused == variant = "guide" /\ (content = <<>> \/ Len(Trim(content)) = 0)
        sent == IF variant = "guide" THEN Trim(content) ELSE content
    IN  /\ reading' = RemoveAt(reading, i)
        /\ IF refused
           THEN UNCHANGED << document, processing, entities, pending >>
           ELSE /\ document' = [isNull |-> FALSE, filename |-> r.file.filename,
                                content |-> content]
                /\ processing' = TRUE
                /\ entities' = IF variant = "guide" THEN <<>> ELSE entities
                /\ pending' = Append(pending, [file |-> r.file, mode |-> r.mode,
                                               content |-> sent])
        /\ UNCHANGED << searchTerm, sourceFilter, generation, backend, variant, currentMode, currentPage, systemStatus,
                        selectedEntities, editingEntity, showManualAdd,
                        healthPending, drops >>

\* the read fails: only the installation_guide variant installs reader.onerror
readerOnerror ==
  \E i \in DOMAIN reading :
    /\ reading' = RemoveAt(reading, i)
    /\ processing' = IF variant = "guide" THEN FALSE ELSE processing
    /\ UNCHANGED << searchTerm, sourceFilter, generation, backend, variant, currentMode, document, entities, currentPage,
                    systemStatus, selectedEntities, editingEntity, showManualAdd,
                    healthPending, pending, drops >>

\* POST /process answered: request i gets the given response
ProcessResponse(i, response) ==
  /\ pending' = RemoveAt(pending, i)
  /\ entities' = response.entities
  /\ currentPage' =
       IF variant = "guide" /\ Len(response.entities) = 0
       THEN currentPage
       ELSE "dashboard"
  /\ processing' = FALSE
  /\ UNCHANGED << searchTerm, sourceFilter, generation, backend, variant, currentMode, document, systemStatus, selectedEntities,
                  editingEntity, showManualAdd, healthPending, reading, drops >>

processResponse ==
  \E i \in DOMAIN pending :
    \E response \in BackendResponses(pending[i].content, pending[i].mode) :
      ProcessResponse(i, response)

\* faulty variant: the catch branch without the finally block
processErrorKeepsFlag ==
  \E i \in DOMAIN pending :
    /\ pending' = RemoveAt(pending, i)
    /\ UNCHANGED << searchTerm, sourceFilter, generation, backend, variant, currentMode, document, entities, processing,
                    currentPage, systemStatus, selectedEntities, editingEntity,
                    showManualAdd, healthPending, reading, drops >>

\* POST /process failed (error status, timeout, no connection)
processError ==
  \E i \in DOMAIN pending :
    /\ pending' = RemoveAt(pending, i)
    /\ processing' = FALSE
    /\ UNCHANGED << searchTerm, sourceFilter, generation, backend, variant, currentMode, document, entities, currentPage,
                    systemStatus, selectedEntities, editingEntity, showManualAdd,
                    healthPending, reading, drops >>

\* ------------------------------------------------------------------ dashboard
\* the replacement editor is rendered (and holds the focus)
EditorShown ==
  /\ currentPage = "dashboard"
  /\ variant \in CurationVariants
  /\ editingEntity \in Ids(entities)

\* a click on the dashboard; with the editor focused the click first blurs it
Dashboard == currentPage = "dashboard" /\ ~EditorShown

\* the big checkbox of an entity card
ToggleEntity(id) ==
  /\ Dashboard
  /\ id \in Ids(entities)
  /\ entities' = toggleEntity(entities, id)
  /\ UNCHANGED << searchTerm, sourceFilter, generation, backend, variant, currentMode, document, processing, currentPage,
                  systemStatus, selectedEntities, editingEntity, showManualAdd,
                  healthPending, reading, pending, drops >>

\* String.prototype.toLowerCase over the letters
UpperLetters ==
  << "A", "B", "C", "D", "E", "F", "G", "H", "I", "J", "K", "L", "M",
     "N", "O", "P", "Q", "R", "S", "T", "U", "V", "W", "X", "Y", "Z" >>

LowerLetters ==
  << "a", "b", "c", "d", "e", "f", "g", "h", "i", "j", "k", "l", "m",
     "n", "o", "p", "q", "r", "s", "t", "u", "v", "w", "x", "y", "z" >>

toLowerCase(str) ==
  [ i \in DOMAIN str |->
      IF \E k \in DOMAIN UpperLetters : UpperLetters[k] = str[i]
      THEN LowerLetters[CHOOSE k \in DOMAIN UpperLetters : UpperLetters[k] = str[i]]
      ELSE str[i] ]

\* String.prototype.includes
StringIncludes(str, term) ==
  \E k \in 0..(Len(str) - Len(term)) : SubSeq(str, k + 1, k + Len(term)) = term

\* the predicate of filteredEntities
MatchesFilter(entity) ==
  /\ \/ StringIncludes(toLowerCase(entity.text), toLowerCase(searchTerm))
     \/ StringIncludes(toLowerCase(entity.replacement), toLowerCase(searchTerm))
  /\ (sourceFilter = "all" \/ entity.source = sourceFilter)

\* the entities the list shows
filteredEntities == SelectSeq(entities, MatchesFilter)

\* faulty variant: the button works on the entities shown
SelectAllToggleFiltered ==
  /\ Dashboard
  /\ entities' =
       LET allSelected == \A i \in DOMAIN filteredEntities : filteredEntities[i].selected
       IN  [ i \in DOMAIN entities |->
               IF MatchesFilter(entities[i])
               THEN [entities[i] EXCEPT !.selected = ~allSelected]
               ELSE entities[i] ]
  /\ UNCHANGED << searchTerm, sourceFilter, generation, backend, variant, currentMode,
                  document, processing, currentPage, systemStatus, selectedEntities,
                  editingEntity, showManualAdd, healthPending, reading, pending,
                  drops >>

\* the select-all button
SelectAllToggle ==
  /\ Dashboard
  /\ entities' = toggleAll(entities)
  /\ UNCHANGED << searchTerm, sourceFilter, generation, backend, variant, currentMode, document, processing, currentPage,
                  systemStatus, selectedEntities, editingEntity, showManualAdd,
                  healthPending, reading, pending, drops >>

\* the pencil button, or a click on the replacement
StartEdit(id) ==
  /\ Dashboard
  /\ variant \in CurationVariants
  /\ id \in Ids(entities)
  /\ editingEntity' = id
  /\ UNCHANGED << searchTerm, sourceFilter, generation, backend, variant, currentMode, document, entities, processing, currentPage,
                  systemStatus, selectedEntities, showManualAdd, healthPending,
                  reading, pending, drops >>

\* what the editor can hold: the value shown at first, or a typed one
EditorValues ==
  TextInputs \cup { entities[i].replacement : i \in { j \in DOMAIN entities :
                                                     entities[j].id = editingEntity } }

\* the body of both editor paths: updateEntityReplacement, setEditingEntity(null)
CommitEdit(value) ==
  /\ EditorShown
  /\ entities' =
       IF variant = "guide"
       THEN updateEntityReplacementGuide(entities, editingEntity, value)
       ELSE updateEntityReplacement(entities, editingEntity, value)
  /\ editingEntity' = NullId
  /\ UNCHANGED << searchTerm, sourceFilter, generation, backend, variant, currentMode, document, processing, currentPage,
                  systemStatus, selectedEntities, showManualAdd, healthPending,
                  reading, pending, drops >>

\* onKeyDown with the Enter key
EditKeyEnter == \E value \in EditorValues : CommitEdit(value)

\* onBlur
EditBlur == \E value \in EditorValues : CommitEdit(value)

\* onKeyDown with the Escape key
EditKeyEscape ==
  /\ EditorShown
  /\ editingEntity' = NullId
  /\ UNCHANGED << searchTerm, sourceFilter, generation, backend, variant, currentMode, document, entities, processing, currentPage,
                  systemStatus, selectedEntities, showManualAdd, healthPending,
                  reading, pending, drops >>

\* the bin button, then window.confirm
DeleteEntity(id, confirmed) ==
  /\ Dashboard
  /\ variant \in CurationVariants
  /\ entities' = IF confirmed THEN deleteEntity(entities, id) ELSE entities
  /\ selectedEntities' =
       IF confirmed /\ variant = "guide"
       THEN removeFromSelection(selectedEntities, id)
       ELSE selectedEntities
  /\ UNCHANGED << searchTerm, sourceFilter, generation, backend, variant, currentMode, document, processing, currentPage,
                  systemStatus, editingEntity, showManualAdd, healthPending,
                  reading, pending, drops >>

\* the small checkbox of an entity card
GroupCheckbox(id) ==
  /\ Dashboard
  /\ variant \in CurationVariants
  /\ id \in Ids(entities)
  /\ selectedEntities' =
       IF Includes(selectedEntities, id)
       THEN removeFromSelection(selectedEntities, id)
       ELSE addToSelection(selectedEntities, id)
  /\ UNCHANGED << searchTerm, sourceFilter, generation, backend, variant, currentMode, document, entities, processing, currentPage,
                  systemStatus, editingEntity, showManualAdd, healthPending,
                  reading, pending, drops >>

\* createGroup: too few ids ticked, or the prompt and its answer
CreateGroup(answer) ==
  /\ Dashboard
  /\ variant \in CurationVariants
  /\ IF Cardinality(selectedEntities) < 2
     THEN UNCHANGED << entities, selectedEntities >>
     ELSE LET accepted == IF variant = "guide"
                          THEN groupAcceptedGuide(answer)
                          ELSE groupAccepted(answer)
              stored == IF variant = "guide" THEN Trim(answer.value) ELSE answer.value
          IN  /\ entities' = IF accepted
                             THEN groupEntities(entities, selectedEntities, stored)
                             ELSE entities
              /\ selectedEntities' = IF accepted THEN {} ELSE selectedEntities
  /\ UNCHANGED << searchTerm, sourceFilter, generation, backend, variant, currentMode, document, processing, currentPage,
                  systemStatus, editingEntity, showManualAdd, healthPending,
                  reading, pending, drops >>

\* the "Ajouter manuel" button (part_000 only)
ToggleManualForm ==
  /\ Dashboard
  /\ variant = "part_000"
  /\ showManualAdd' = ~showManualAdd
  /\ UNCHANGED << searchTerm, sourceFilter, generation, backend, variant, currentMode, document, entities, processing, currentPage,
                  systemStatus, selectedEntities, editingEntity, healthPending,
                  reading, pending, drops >>

\* the browser submits the form only with every required field filled and
\* both number fields holding a number
FormValid(form) ==
  /\ form.text # <<>>
  /\ form.replacement # <<>>
  /\ ~parseInt(form.startPos).nan
  /\ ~parseInt(form.endPos).nan

\* addManualEntity as called by onSubmit
addManualEntity(ents, clock, form) ==
  Append(ents, newManualEntity(clock, form.text, form.type, form.replacement,
                               parseInt(form.startPos).n, parseInt(form.endPos).n))

\* onSubmit of the manual form: addManualEntity, then the form is closed
SubmitManual(form, clock) ==
  /\ Dashboard
  /\ variant = "part_000"
  /\ showManualAdd
  /\ Len(entities) < MaxEntities
  /\ FormValid(form)
  /\ entities' = addManualEntity(entities, clock, form)
  /\ showManualAdd' = FALSE
  /\ UNCHANGED << searchTerm, sourceFilter, generation, backend, variant, currentMode, document, processing, currentPage,
                  systemStatus, selectedEntities, editingEntity, healthPending,
                  reading, pending, drops >>

\* "Nouveau document"
NewDocument ==
  /\ Dashboard
  /\ currentPage' = "upload"
  /\ entities' = IF variant = "guide" THEN <<>> ELSE entities
  /\ document' = IF variant = "guide" THEN NoDocument ELSE document
  /\ UNCHANGED << searchTerm, sourceFilter, generation, backend, variant, currentMode, processing, systemStatus, selectedEntities,
                  editingEntity, showManualAdd, healthPending, reading, pending,
                  drops >>

\* the entities with selected = true
SelectedCount(ents) == Cardinality({ i \in DOMAIN ents : ents[i].selected })

\* the component state of these variants is itself named document, so inside
\* generateDocument the identifier document is the state object, not the page
ShadowsDocument == variant \in {"part_000", "guide"}

\* faulty variant: installation_guide without its two early returns and with
\* the button left enabled
GenerateDocumentUnguarded ==
  /\ Dashboard
  /\ generation.stage # "sent"
  /\ generation' =
       IF document.isNull
       THEN [stage |-> "done", download |-> FALSE, notice |-> "error"]
       ELSE [stage |-> "sent", download |-> FALSE, notice |-> "none"]
  /\ UNCHANGED << searchTerm, sourceFilter, backend, variant, currentMode, document, entities, processing,
                  currentPage, systemStatus, selectedEntities, editingEntity,
                  showManualAdd, healthPending, reading, pending, drops >>

\* "Generer DOCX": installation_guide returns early (and disables the button)
\* with no entity or none selected; reading document.content of null throws
\* inside the try block; otherwise the POST is sent
GenerateDocument ==
  /\ Dashboard
  /\ generation.stage # "sent"
  /\ variant = "guide" => (Len(entities) # 0 /\ SelectedCount(entities) # 0)
  /\ generation' =
       IF document.isNull
       THEN [stage |-> "done", download |-> FALSE, notice |-> "error"]
       ELSE [stage |-> "sent", download |-> FALSE, notice |-> "none"]
  /\ UNCHANGED << searchTerm, sourceFilter, backend, variant, currentMode, document, entities, processing,
                  currentPage, systemStatus, selectedEntities, editingEntity,
                  showManualAdd, healthPending, reading, pending, drops >>

\* POST /generate-document answered with the file: document.createElement('a')
\* is called on what the identifier document stands for in the handler; on the
\* state object it is not a function, the TypeError lands in the catch branch
GenerateResponse ==
  /\ generation.stage = "sent"
  /\ generation' =
       IF ShadowsDocument
       THEN [stage |-> "done", download |-> FALSE, notice |-> "error"]
       ELSE [stage |-> "done", download |-> TRUE, notice |-> "success"]
  /\ UNCHANGED << searchTerm, sourceFilter, backend, variant, currentMode, document, entities, processing,
                  currentPage, systemStatus, selectedEntities, editingEntity,
                  showManualAdd, healthPending, reading, pending, drops >>

\* POST /generate-document failed (error status, timeout, no connection)
GenerateError ==
  /\ generation.stage = "sent"
  /\ generation' = [stage |-> "done", download |-> FALSE, notice |-> "error"]
  /\ UNCHANGED << searchTerm, sourceFilter, backend, variant, currentMode, document, entities, processing,
                  currentPage, systemStatus, selectedEntities, editingEntity,
                  showManualAdd, healthPending, reading, pending, drops >>

ClickToggle == \E id \in Ids(entities) : ToggleEntity(id)

ClickEdit == \E id \in Ids(entities) : StartEdit(id)

ClickDelete == \E id \in Ids(entities), confirmed \in BOOLEAN : DeleteEntity(id, confirmed)

ClickGroupCheckbox == \E id \in Ids(entities) : GroupCheckbox(id)

ClickGroup == \E answer \in PromptResults(PromptInputs) : CreateGroup(answer)

SubmitManualForm == \E form \in ManualForms, clock \in ClockValues : SubmitManual(form, clock)

Next ==
  \/ checkStatusOk
  \/ checkStatusFailed
  \/ selectStandard
  \/ selectAdvanced
  \/ selectOllama
  \/ onDrop
  \/ readerOnload
  \/ readerOnerror
  \/ processResponse
  \/ processError
  \/ ClickToggle
  \/ SelectAllToggle
  \/ ClickEdit
  \/ EditKeyEnter
  \/ EditBlur
  \/ EditKeyEscape
  \/ ClickDelete
  \/ ClickGroupCheckbox
  \/ ClickGroup
  \/ ToggleManualForm
  \/ SubmitManualForm
  \/ NewDocument
  \/ GenerateDocument
  \/ GenerateResponse
  \/ GenerateError

Spec == Init /\ [][Next]_vars

\* ------------------------------------------------------------------ curation
\* The dashboard right after the first document (a.txt) was processed in
\* standard mode: the entity set is the reconciled set the backend answered
\* with.
InitStore ==
  /\ variant \in Variants
  /\ currentMode = "standard"
  /\ \E file \in {FileA} :
       /\ document = [isNull |-> FALSE, filename |-> file.filename,
                      content |-> file.content]
       /\ \E response \in BackendResponses(
                 IF variant = "guide" THEN Trim(file.content) ELSE file.content,
                 "standard") :
            /\ variant = "guide" => Len(response.entities) # 0
            /\ entities = response.entities
  /\ processing = FALSE
  /\ currentPage = "dashboard"
  /\ systemStatus = [spacy_available |-> FALSE, ollama_available |-> FALSE]
  /\ selectedEntities = {}
  /\ editingEntity = NullId
  /\ showManualAdd = FALSE
  /\ healthPending = FALSE
  /\ reading = <<>>
  /\ pending = <<>>
  /\ drops = 1
  /\ backend = Idle
  /\ generation = NotGenerated
  /\ searchTerm = <<>>
  /\ sourceFilter = "all"

\* the handlers of the dashboard that curate the entity set
StoreNext ==
  \/ ClickToggle
  \/ SelectAllToggle
  \/ ClickEdit
  \/ EditKeyEnter
  \/ EditBlur
  \/ EditKeyEscape
  \/ ClickDelete
  \/ ClickGroupCheckbox
  \/ ClickGroup
  \/ ToggleManualForm
  \/ SubmitManualForm

SpecStore == InitStore /\ [][StoreNext]_vars

\* ------------------------------------------------------------------ upload flow
\* The handlers that upload and process documents, and the way back from the
\* dashboard to the upload page.
UploadNext ==
  \/ checkStatusOk
  \/ checkStatusFailed
  \/ selectStandard
  \/ selectAdvanced
  \/ selectOllama
  \/ onDrop
  \/ readerOnload
  \/ readerOnerror
  \/ processResponse
  \/ processError
  \/ NewDocument

SpecUpload == Init /\ [][UploadNext]_vars

\* ------------------------------------------------------------------ properties
Positions(e) == { e.positions[k] : k \in DOMAIN e.positions }

SpansCollide(e, f) == \E p \in Positions(e), q \in Positions(f) : Overlaps(p, q)

Blank(str) == Trim(str) = <<>>

\* C1: in every state reachable by the store operations from a reconciled
\* entity set, no two entities with selected = true have overlapping spans
\* (so generate-document is never sent two overlapping selected spans).
C1_NoSelectedOverlap ==
  \A i \in DOMAIN entities : \A j \in DOMAIN entities :
    (i # j /\ entities[i].selected /\ entities[j].selected)
      => ~SpansCollide(entities[i], entities[j])

\* the span checks the manual insertion has to make against the document
\* and the entities already in the store
ManualSpanAccepted(form) ==
  LET start == parseInt(form.startPos)
      end == parseInt(form.endPos)
  IN  /\ ~start.nan /\ ~end.nan
      /\ 0 <= start.n /\ start.n < end.n /\ end.n <= Len(document.content)
      /\ Slice(document.content, start.n, end.n) = form.text
      /\ \A i \in DOMAIN entities : \A p \in Positions(entities[i]) :
           ~Overlaps(p, [start |-> start.n, end |-> end.n])

\* C2: addManualEntity adds an entity only when 0 <= start < end <= len,
\* content[start:end] = text and the span overlaps no existing position; in
\* every other case the call is rejected and the entity set is left as it was.
C2_ManualAddValidated ==
  [][ \A form \in ManualForms : \A clock \in ClockValues :
        (SubmitManual(form, clock) /\ ~ManualSpanAccepted(form))
          => entities' = entities ]_vars

\* C3: for every entity of the store and every one of its positions, the
\* slice [start, end) of the document content held by the UI (the string
\* sent as original_content) is the entity's text.
C3_SliceConsistency ==
  ~document.isNull =>
    \A i \in DOMAIN entities : \A p \in Positions(entities[i]) :
      /\ 0 <= p.start /\ p.start <= p.end /\ p.end <= Len(document.content)
      /\ Slice(document.content, p.start, p.end) = entities[i].text

\* C4: every entity of the store has a replacement that is neither empty nor
\* made of white space only, after any sequence of store operations.
C4_ReplacementNeverBlank ==
  \A i \in DOMAIN entities : ~Blank(entities[i].replacement)

\* C5: updateEntityReplacement with an empty or blank value is rejected and
\* leaves the whole entity set unchanged, on the Enter path and on the blur
\* path, in every variant that defines the operation.
C5_BlankEditRejected ==
  [][ \A value \in EditorValues :
        (CommitEdit(value) /\ Blank(value)) => entities' = entities ]_vars

\* C6: the ids of the entities in the store are pairwise distinct in every
\* reachable state (an id given by addManualEntity is never one already used).
C6_IdsUnique ==
  \A i \in DOMAIN entities : \A j \in DOMAIN entities :
    i # j => entities[i].id # entities[j].id

\* the frame of a grouping: the other entities and the ids stay as they were
GroupFrame ==
  /\ DOMAIN entities' = DOMAIN entities
  /\ \A i \in DOMAIN entities :
       /\ entities'[i].id = entities[i].id
       /\ entities[i].id \notin selectedEntities => entities'[i] = entities[i]

\* C7 as stated: with at least 2 ids ticked and a non-empty shared
\* replacement, createGroup leaves every ticked entity with exactly the shared
\* replacement, every other entity unchanged and the ids as before.
C7_GroupSetsSharedReplacement ==
  [][ \A answer \in PromptResults(PromptInputs) :
        ( /\ CreateGroup(answer)
          /\ Cardinality(selectedEntities) >= 2
          /\ ~answer.cancelled
          /\ answer.value # <<>> )
        => /\ GroupFrame
           /\ \A i \in DOMAIN entities :
                entities[i].id \in selectedEntities
                  => entities'[i].replacement = answer.value ]_vars

\* the shared replacement as the variant stores it
StoredSharedReplacement(value) == IF variant = "guide" THEN Trim(value) ELSE value

\* C7 amended: with at least 2 ids ticked and a shared replacement that is not
\* blank, createGroup leaves every ticked entity with the shared replacement as
\* the variant stores it (verbatim in part_000, trimmed in installation_guide)
\* and nothing else changed, every other entity unchanged, the ids as before.
C7_GroupSetsStoredReplacement ==
  [][ \A answer \in PromptResults(PromptInputs) :
        ( /\ CreateGroup(answer)
          /\ Cardinality(selectedEntities) >= 2
          /\ ~answer.cancelled
          /\ ~Blank(answer.value) )
        => /\ GroupFrame
           /\ \A i \in DOMAIN entities :
                entities[i].id \in selectedEntities
                  => entities'[i] =
                       [entities[i] EXCEPT
                          !.replacement = StoredSharedReplacement(answer.value)] ]_vars

\* a group was made of two entities: both carry the group name, the ticks
\* are cleared
C7_Grouped ==
  /\ selectedEntities = {}
  /\ \E i \in DOMAIN entities : \E j \in DOMAIN entities :
       /\ entities[i].id # entities[j].id
       /\ entities[i].replacement \in { <<"G">>, <<" ", "G">> }
       /\ entities[j].replacement = entities[i].replacement

\* the entities of the store whose id is ticked
TickedPresent == { i \in DOMAIN entities : entities[i].id \in selectedEntities }

\* C8: createGroup changes the store only when at least 2 entities present in
\* the store are ticked and the shared name is not blank; in every other case
\* the entity set and the grouping selection are both left unchanged.
C8_GroupOnlyWhenValid ==
  [][ \A answer \in PromptResults(PromptInputs) :
        ( /\ CreateGroup(answer)
          /\ ~( /\ Cardinality(TickedPresent) >= 2
                /\ ~answer.cancelled
                /\ ~Blank(answer.value) ) )
        => UNCHANGED << entities, selectedEntities >> ]_vars

\* C9: toggleEntity(id) flips selected on the entities with that id and on no
\* other, keeps the number and order of entities and every other field; a
\* second toggleEntity(id) gives back the entity set of before.
C9_ToggleFlipsOne ==
  [][ \A id \in Ids(entities) :
        ToggleEntity(id)
        => /\ DOMAIN entities' = DOMAIN entities
           /\ \A i \in DOMAIN entities :
                entities'[i] =
                  IF entities[i].id = id
                  THEN [entities[i] EXCEPT !.selected = ~entities[i].selected]
                  ELSE entities[i]
           /\ toggleEntity(entities', id) = entities ]_vars

\* one entity was unticked while another one stayed selected (these variants
\* add no entity, so only toggleEntity gives mixed flags)
C9_Toggled ==
  /\ variant \in {"guide", "appjs"}
  /\ \E i \in DOMAIN entities : \E j \in DOMAIN entities :
       entities[i].selected /\ ~entities[j].selected

\* ids that may be asked for without being in the store
IdUniverse == {"e1", "e2", "e3"} \cup { NumberToString(c) : c \in ClockValues }

\* C10: a confirmed deleteEntity(id) leaves no entity with that id and every
\* other entity unchanged in the same order; deleting an absent id, or the same
\* id again, changes nothing; a declined confirmation changes nothing.
C10_DeleteRemovesOnlyId ==
  [][ \A id \in Ids(entities) :
        /\ DeleteEntity(id, TRUE)
           => /\ id \notin Ids(entities')
              /\ entities' = SelectSeq(entities, LAMBDA e : e.id # id)
              /\ deleteEntity(entities', id) = entities'
              /\ \A absent \in IdUniverse \ Ids(entities') :
                   deleteEntity(entities', absent) = entities'
        /\ DeleteEntity(id, FALSE) => entities' = entities ]_vars

\* the first entity the backend returned was deleted, the second one is kept
C10_Deleted ==
  /\ Len(entities) >= 1
  /\ entities[1].id = "e2"
Modes == {"standard", "advanced", "ollama"}

\* the entity sets /process may answer for the document held by the UI
ProcessSets(doc) ==
  LET sent == IF variant = "guide" THEN Trim(doc.content) ELSE doc.content
  IN  { response.entities :
          response \in UNION { BackendResponses(sent, mode) : mode \in Modes } }

\* C11: once a new file has been accepted (document holds its content), the
\* entity set is empty or is a set returned by /process for that document,
\* also when the processing of the new file fails.
C11_EntitiesOfCurrentDocument ==
  ~document.isNull => (entities = <<>> \/ entities \in ProcessSets(document))
\* the capability flag of the mode, as /health reported it
ModeAllowed(mode) ==
  \/ mode = "standard"
  \/ mode = "advanced" /\ systemStatus.spacy_available
  \/ mode = "ollama" /\ systemStatus.ollama_available

\* C12: currentMode is standard, or advanced with spacy_available, or ollama
\* with ollama_available; the mode of every /process request, being prepared
\* or in flight, is such a mode; the standard card can always be chosen on the
\* upload page.
C12_ModeAvailable ==
  /\ ModeAllowed(currentMode)
  /\ \A i \in DOMAIN reading : ModeAllowed(reading[i].mode)
  /\ \A i \in DOMAIN pending : ModeAllowed(pending[i].mode)
  /\ currentPage = "upload" => ENABLED selectStandard

\* a /process request in advanced mode is in flight
C12_AdvancedRequested ==
  \E i \in DOMAIN pending : pending[i].mode = "advanced"
\* C13: whenever a /process response puts its entity set on the dashboard, the
\* mode the dashboard displays ("Mode {currentMode} utilise") is the mode_used
\* of that response, also when the backend degraded to standard.
C13_DisplayedModeIsModeUsed ==
  [][ \A i \in DOMAIN pending :
        \A response \in BackendResponses(pending[i].content, pending[i].mode) :
          (ProcessResponse(i, response) /\ currentPage' = "dashboard")
            => currentMode' = response.mode_used ]_vars
\* ------------------------------------------------------------------ pipeline
\* The detection-merge-rewrite pipeline runs in the backend server, whose code
\* is not among the sources: its components are modelled from their
\* specification.  The session state of the UI plays no part in them.
NoSession ==
  /\ variant = "part_000"
  /\ currentMode = "standard"
  /\ document = NoDocument
  /\ entities = <<>>
  /\ processing = FALSE
  /\ currentPage = "upload"
  /\ systemStatus = [spacy_available |-> FALSE, ollama_available |-> FALSE]
  /\ selectedEntities = {}
  /\ editingEntity = NullId
  /\ showManualAdd = FALSE
  /\ healthPending = TRUE
  /\ reading = <<>>
  /\ pending = <<>>
  /\ drops = 0
  /\ generation = NotGenerated
  /\ searchTerm = <<>>
  /\ sourceFilter = "all"

SessionUnchanged ==
  UNCHANGED << searchTerm, sourceFilter, generation, variant, currentMode, document, entities, processing, currentPage,
               systemStatus, selectedEntities, editingEntity, showManualAdd,
               healthPending, reading, pending, drops >>

\* a call to serve
Call(op, input) == [op |-> op, input |-> input, output |-> <<>>, done |-> FALSE]

\* ------------------------------------------------------------------ reconciler
MaxCandidates == 3

\* the text the candidates were detected in
SampleText == <<"a", "b", "c">>

\* the detectors in declaration order: the source they tag their candidates
\* with, the type and the confidences they give
Detectors ==
  << [source |-> "MANUAL", type |-> "person", confidences |-> {100}],
     [source |-> "REGEX", type |-> "phone", confidences |-> {100}],
     [source |-> "NER", type |-> "person", confidences |-> {50, 80}],
     [source |-> "NER", type |-> "organization", confidences |-> {80}],
     [source |-> "OLLAMA", type |-> "person", confidences |-> {80}] >>

\* the candidates detector d may produce over SampleText
CandidatesOf(d) ==
  { [start |-> p.start, end |-> p.end, text |-> Slice(SampleText, p.start, p.end),
     type |-> Detectors[d].type, confidence |-> c] :
      p \in { q \in Spans(SampleText) : q.start < q.end },
      c \in Detectors[d].confidences }

TaggedCandidates ==
  UNION { { [detector |-> d, candidate |-> c] : c \in CandidatesOf(d) } :
            d \in DOMAIN Detectors }

\* one candidate list per detector, from candidates in their order of arrival
CandidateLists(arrivals) ==
  [ d \in DOMAIN Detectors |->
      LET own == SelectSeq(arrivals, LAMBDA t : t.detector = d)
      IN  [ k \in DOMAIN own |-> own[k].candidate ] ]

\* step 1: one list, each candidate tagged with its detector and source
RECURSIVE Flatten(_, _)
Flatten(candidateLists, d) ==
  IF d > Len(candidateLists) THEN <<>>
  ELSE [ k \in DOMAIN candidateLists[d] |->
           [ start |-> candidateLists[d][k].start,
             end |-> candidateLists[d][k].end,
             text |-> candidateLists[d][k].text,
             type |-> candidateLists[d][k].type,
             confidence |-> candidateLists[d][k].confidence,
             source |-> Detectors[d].source,
             detector |-> d ] ]
       \o Flatten(candidateLists, d + 1)

SpanLength(c) == c.end - c.start

\* step 2: the order (start ascending, span length descending)
SortsBefore(a, b) ==
  \/ a.start < b.start
  \/ a.start = b.start /\ SpanLength(a) > SpanLength(b)

\* c goes before the first element it sorts before
InsertSorted(c, sorted) ==
  LET later == { i \in DOMAIN sorted : SortsBefore(c, sorted[i]) }
      at == IF later = {} THEN Len(sorted) + 1
            ELSE CHOOSE i \in later : \A j \in later : i <= j
  IN  SubSeq(sorted, 1, at - 1) \o <<c>> \o SubSeq(sorted, at, Len(sorted))

RECURSIVE SortCandidates(_)
SortCandidates(cands) ==
  IF cands = <<>> THEN <<>>
  ELSE InsertSorted(cands[Len(cands)],
                    SortCandidates(SubSeq(cands, 1, Len(cands) - 1)))

\* faulty variant: pattern matches are trusted over operator input
SourcePriorityRegexFirst(source) ==
  CASE source = "REGEX" -> 4
    [] source = "MANUAL" -> 3
    [] source = "NER" -> 2
    [] OTHER -> 1

\* MANUAL > REGEX > NER > OLLAMA
SourcePriority(source) ==
  CASE source = "MANUAL" -> 4
    [] source = "REGEX" -> 3
    [] source = "NER" -> 2
    [] OTHER -> 1

\* step 3: priority, then confidence, then span length, then declaration order
Beats(a, b) ==
  LET pa == SourcePriority(a.source)
      pb == SourcePriority(b.source)
  IN  \/ pa > pb
      \/ pa = pb /\ a.confidence > b.confidence
      \/ pa = pb /\ a.confidence = b.confidence /\ SpanLength(a) > SpanLength(b)
      \/ /\ pa = pb /\ a.confidence = b.confidence
         /\ SpanLength(a) = SpanLength(b) /\ a.detector < b.detector

\* faulty variant: the winner is accepted but the loser is not removed
RECURSIVE SweepKeepsLoser(_, _)
SweepKeepsLoser(sorted, accepted) ==
  IF sorted = <<>> THEN accepted
  ELSE LET c == Head(sorted)
       IN  IF accepted = <<>> \/ c.start >= accepted[Len(accepted)].end
           THEN SweepKeepsLoser(Tail(sorted), Append(accepted, c))
           ELSE IF Beats(c, accepted[Len(accepted)])
                THEN SweepKeepsLoser(Tail(sorted), Append(accepted, c))
                ELSE SweepKeepsLoser(Tail(sorted), accepted)

\* step 3: left to right against the right edge of the last accepted span;
\* the loser of a conflict is dropped entirely
RECURSIVE Sweep(_, _)
Sweep(sorted, accepted) ==
  IF sorted = <<>> THEN accepted
  ELSE LET c == Head(sorted)
       IN  IF accepted = <<>> \/ c.start >= accepted[Len(accepted)].end
           THEN Sweep(Tail(sorted), Append(accepted, c))
           ELSE IF Beats(c, accepted[Len(accepted)])
                THEN Sweep(Tail(sorted),
                           Append(SubSeq(accepted, 1, Len(accepted) - 1), c))
                ELSE Sweep(Tail(sorted), accepted)

\* steps 5 and 6: default replacement, selected, ids in the final order
reconcile(candidateLists) ==
  LET kept == Sweep(SortCandidates(Flatten(candidateLists, 1)), <<>>)
  IN  [ i \in DOMAIN kept |->
          Entity("e" \o NumberToString(i), kept[i].text, kept[i].type,
                 kept[i].source, kept[i].confidence,
                 DefaultReplacement(kept[i].type),
                 << [start |-> kept[i].start, end |-> kept[i].end] >>, TRUE) ]

InitReconcile ==
  /\ NoSession
  /\ \E k \in 0..MaxCandidates : \E arrivals \in [1..k -> TaggedCandidates] :
       backend = Call("reconcile", CandidateLists(arrivals))

Reconcile ==
  /\ backend.op = "reconcile"
  /\ ~backend.done
  /\ backend' = [backend EXCEPT !.output = reconcile(backend.input), !.done = TRUE]
  /\ SessionUnchanged

SpecReconcile == InitReconcile /\ [][Reconcile]_vars

Reconciled == backend.op = "reconcile" /\ backend.done

\* C14: for every collection of candidate lists (overlapping, nested and
\* duplicate spans included) the entities reconcile returns have pairwise
\* non-overlapping spans.
C14_ReconciledNonOverlapping ==
  Reconciled =>
    \A i \in DOMAIN backend.output : \A j \in DOMAIN backend.output :
      i # j => ~SpansCollide(backend.output[i], backend.output[j])

\* three candidates, two of them in conflict, gave two entities
C14_ConflictResolved ==
  /\ Reconciled
  /\ Len(Flatten(backend.input, 1)) = 3
  /\ Len(backend.output) = 2
  /\ LET flat == Flatten(backend.input, 1)
     IN  \E a \in DOMAIN flat : \E b \in DOMAIN flat :
           a # b /\ Overlaps(flat[a], flat[b])
\* the candidates of the call, as the reconciler flattens them
Arrived == Flatten(backend.input, 1)

\* the stated order of sources
StatedRank(source) ==
  CASE source = "MANUAL" -> 4 [] source = "REGEX" -> 3
    [] source = "NER" -> 2 [] source = "OLLAMA" -> 1

\* a is preferred to b by source, then confidence, then length, then detector
Preferred(a, b) ==
  \/ StatedRank(a.source) > StatedRank(b.source)
  \/ /\ StatedRank(a.source) = StatedRank(b.source)
     /\ \/ a.confidence > b.confidence
        \/ /\ a.confidence = b.confidence
           /\ \/ a.end - a.start > b.end - b.start
              \/ /\ a.end - a.start = b.end - b.start
                 /\ a.detector < b.detector

\* candidate c is an entity of the result
KeptAs(c) ==
  \E i \in DOMAIN backend.output :
    /\ backend.output[i].positions = << [start |-> c.start, end |-> c.end] >>
    /\ backend.output[i].source = c.source
    /\ backend.output[i].confidence = c.confidence
    /\ backend.output[i].type = c.type
    /\ backend.output[i].text = c.text

\* the entities of the result that lie over candidate a or candidate b
ResultOver(a, b) ==
  { i \in DOMAIN backend.output :
      \E p \in Positions(backend.output[i]) : Overlaps(p, a) \/ Overlaps(p, b) }

\* the conflict of a and b involves no third candidate
TwoWayConflict(a, b) ==
  /\ a # b
  /\ Overlaps(Arrived[a], Arrived[b])
  /\ \A c \in DOMAIN Arrived \ {a, b} :
       ~Overlaps(Arrived[c], Arrived[a]) /\ ~Overlaps(Arrived[c], Arrived[b])

MaxRewriteEntities == 2

\* original texts with a repeated substring
OriginalTexts == { <<"a", "b", "a">>, <<"a", "a", "b">> }

\* replacements shorter and longer than the spans they cover
Replacements == { <<"X">>, <<"X", "Y", "Z">> }

\* what the rewriter reads of an entity: positions, replacement, selected
EntityShapes(text) ==
  LET spans == { q \in Spans(text) : q.start < q.end }
  IN  { [positions |-> <<p>>, replacement |-> r, selected |-> b] :
          p \in spans, r \in Replacements, b \in BOOLEAN }
      \cup
      { [positions |-> <<pq[1], pq[2]>>, replacement |-> <<"X">>,
         selected |-> TRUE] :
          pq \in { o \in spans \X spans : o[1].start < o[2].start } }

\* the entity set of a generate-document request
RewriteEntities(text, shapes) ==
  [ i \in DOMAIN shapes |->
      Entity("e" \o NumberToString(i),
             Slice(text, shapes[i].positions[1].start, shapes[i].positions[1].end),
             "person", "NER", 80, shapes[i].replacement, shapes[i].positions,
             shapes[i].selected) ]

\* the (start, end, replacement) triples of one entity
EntityTriples(e) ==
  [ k \in DOMAIN e.positions |->
      [start |-> e.positions[k].start, end |-> e.positions[k].end,
       replacement |-> e.replacement] ]

\* faulty variant: the selected flag is not looked at
RECURSIVE TriplesOfAll(_)
TriplesOfAll(ents) ==
  IF ents = <<>> THEN <<>>
  ELSE EntityTriples(Head(ents)) \o TriplesOfAll(Tail(ents))

\* step 1: one triple per occurrence of every selected entity
RECURSIVE Triples(_)
Triples(ents) ==
  IF ents = <<>> THEN <<>>
  ELSE (IF Head(ents).selected THEN EntityTriples(Head(ents)) ELSE <<>>)
       \o Triples(Tail(ents))

InsertByStart(t, sorted) ==
  LET later == { i \in DOMAIN sorted : t.start < sorted[i].start }
      at == IF later = {} THEN Len(sorted) + 1
            ELSE CHOOSE i \in later : \A j \in later : i <= j
  IN  SubSeq(sorted, 1, at - 1) \o <<t>> \o SubSeq(sorted, at, Len(sorted))

\* step 2: ascending by start
RECURSIVE SortTriples(_)
SortTriples(triples) ==
  IF triples = <<>> THEN <<>>
  ELSE InsertByStart(triples[Len(triples)],
                     SortTriples(SubSeq(triples, 1, Len(triples) - 1)))

\* faulty variant: the defensive re-check is left out
HasOverlapUnchecked(sorted) == FALSE

\* step 2: any two selected spans overlap
HasOverlap(sorted) ==
  \E i \in DOMAIN sorted : \E j \in DOMAIN sorted :
    i < j /\ sorted[j].start < sorted[i].end

\* step 3: one left-to-right pass from the cursor
RECURSIVE Build(_, _, _)
Build(originalText, sorted, cursor) ==
  IF sorted = <<>> THEN Slice(originalText, cursor, Len(originalText))
  ELSE Slice(originalText, cursor, Head(sorted).start)
       \o Head(sorted).replacement
       \o Build(originalText, Tail(sorted), Head(sorted).end)

RECURSIVE ReplaceAll(_, _, _)
ReplaceAll(text, old, new) ==
  IF Len(text) < Len(old) \/ old = <<>> THEN text
  ELSE IF SubSeq(text, 1, Len(old)) = old
       THEN new \o ReplaceAll(SubSeq(text, Len(old) + 1, Len(text)), old, new)
       ELSE <<Head(text)>> \o ReplaceAll(Tail(text), old, new)

RECURSIVE ReplaceEach(_, _)
ReplaceEach(text, ents) ==
  IF ents = <<>> THEN text
  ELSE ReplaceEach(IF Head(ents).selected
                   THEN ReplaceAll(text, Head(ents).text, Head(ents).replacement)
                   ELSE text,
                   Tail(ents))

\* faulty variant: whole-string replacements keyed by the entity text
rewriteBySubstring(originalText, ents) ==
  [error |-> "none", text |-> ReplaceEach(originalText, ents),
   log |-> SortTriples(Triples(ents))]

\* rewrite(originalText, entities): the anonymized text and the change log,
\* or OverlapError and no text
rewrite(originalText, ents) ==
  LET sorted == SortTriples(Triples(ents))
  IN  IF HasOverlap(sorted)
      THEN [error |-> "OverlapError", text |-> <<>>, log |-> <<>>]
      ELSE [error |-> "none", text |-> Build(originalText, sorted, 0),
            log |-> sorted]

InitRewrite ==
  /\ NoSession
  /\ \E text \in OriginalTexts : \E k \in 0..MaxRewriteEntities :
       \E shapes \in [1..k -> EntityShapes(text)] :
         backend = Call("rewrite", [originalText |-> text,
                                    entities |-> RewriteEntities(text, shapes)])

Rewrite ==
  /\ backend.op = "rewrite"
  /\ ~backend.done
  /\ backend' = [backend EXCEPT
                   !.output = rewrite(backend.input.originalText,
                                      backend.input.entities),
                   !.done = TRUE]
  /\ SessionUnchanged

SpecRewrite == InitRewrite /\ [][Rewrite]_vars

Rewritten == backend.op = "rewrite" /\ backend.done

\* the selected occurrences of the request, each with its replacement
SelectedSpans ==
  LET ents == backend.input.entities
  IN  UNION { { [entity |-> i, occurrence |-> k,
                 start |-> ents[i].positions[k].start,
                 end |-> ents[i].positions[k].end,
                 replacement |-> ents[i].replacement] :
                  k \in DOMAIN ents[i].positions } :
              i \in { j \in DOMAIN ents : ents[j].selected } }

\* two selected occurrences overlap, in different entities or in one
SelectedOverlap ==
  \E s \in SelectedSpans : \E t \in SelectedSpans : s # t /\ Overlaps(s, t)

\* the anonymized text, character by character: at offset k the replacement
\* of the selected span starting there, then the original character unless a
\* selected span covers it
RECURSIVE ExpectedFrom(_)
ExpectedFrom(k) ==
  LET text == backend.input.originalText
      starting == { s \in SelectedSpans : s.start = k }
      covered == \E s \in SelectedSpans : s.start <= k /\ k < s.end
  IN  IF k > Len(text) THEN <<>>
      ELSE (IF starting # {} THEN (CHOOSE s \in starting : TRUE).replacement
            ELSE <<>>)
           \o (IF k < Len(text) /\ ~covered THEN <<text[k + 1]>> ELSE <<>>)
           \o ExpectedFrom(k + 1)

\* C16: when the selected spans are pairwise non-overlapping, rewrite returns
\* the original text with each selected span replaced by its replacement
\* (shorter or longer than the span) and everything else copied verbatim, in
\* ascending order: text under unselected entities and other occurrences of
\* the same substring are unchanged.
C16_RewriteSubstitutesSelectedSpans ==
  (Rewritten /\ ~SelectedOverlap) =>
    /\ backend.output.error = "none"
    /\ backend.output.text = ExpectedFrom(0)

\* "aba" with the first "a" selected and replaced by a longer string, under an
\* unselected entity elsewhere: the second "a" is kept
C16_FirstOccurrenceReplaced ==
  /\ Rewritten
  /\ backend.input.originalText = <<"a", "b", "a">>
  /\ \E i \in DOMAIN backend.input.entities : ~backend.input.entities[i].selected
  /\ backend.output.text = <<"X", "Y", "Z", "b", "a">>

\* C17: if no entity is selected, the text rewrite produces is the original
\* text exactly, for every original text and every entity set.
C17_NothingSelectedRoundTrip ==
  (Rewritten /\ \A i \in DOMAIN backend.input.entities :
                  ~backend.input.entities[i].selected)
    => /\ backend.output.error = "none"
       /\ backend.output.text = backend.input.originalText

\* two unselected entities over the text, which came back as it was
C17_UnselectedIgnored ==
  /\ Rewritten
  /\ Len(backend.input.entities) = 2
  /\ \A i \in DOMAIN backend.input.entities : ~backend.input.entities[i].selected
  /\ backend.output.text = backend.input.originalText

\* C18: if any two selected spans overlap (in different entities or within one
\* entity's positions), rewrite fails with OverlapError and produces no text.
C18_OverlapAborts ==
  (Rewritten /\ SelectedOverlap) =>
    /\ backend.output.error = "OverlapError"
    /\ backend.output.text = <<>>

\* the overlap is within the positions of one selected entity
C18_OverlapInOneEntity ==
  /\ Rewritten
  /\ \E s \in SelectedSpans : \E t \in SelectedSpans :
       s.entity = t.entity /\ s # t /\ Overlaps(s, t)
  /\ backend.output.error = "OverlapError"
\* ------------------------------------------------------------------ process request
MaxDetected == 1

\* the candidate lists detector d may return for the text
DetectedLists(d) ==
  UNION { [1..k -> CandidatesOf(d)] : k \in 0..MaxDetected }

PatternDetectorIndex == [name |-> "PatternDetector", detector |-> 2]

\* the statistical detector a mode adds to the pattern detector
StatisticalDetectorOf(mode) == IF mode = "ollama" THEN 5 ELSE 3

NotCalled == [status |-> "notcalled", candidates |-> <<>>]

Unavailable == [status |-> "unavailable", candidates |-> <<>>]

\* the candidate lists handed to the reconciler
ListsToReconcile(patterns, mode, statistical) ==
  [ d \in DOMAIN Detectors |->
      IF d = PatternDetectorIndex.detector THEN patterns
      ELSE IF d = StatisticalDetectorOf(mode) /\ statistical.status = "ok"
           THEN statistical.candidates
           ELSE <<>> ]

\* the server before a /process request arrives
InitProcess ==
  /\ NoSession
  /\ backend = [op |-> "process", input |-> <<>>, stage |-> "listening",
                statistical |-> NotCalled, output |-> <<>>, done |-> FALSE]

\* a /process request arrives; PatternDetector is a function of the text, so
\* what it finds is fixed with the request
ReceiveProcess ==
  /\ backend.op = "process" /\ backend.stage = "listening"
  /\ \E mode \in Modes : \E patterns \in DetectedLists(PatternDetectorIndex.detector) :
       backend' = [backend EXCEPT
                     !.input = [content |-> SampleText, mode |-> mode,
                                patterns |-> patterns],
                     !.stage = "received"]
  /\ SessionUnchanged

\* PatternDetector.detect: never fails; standard mode runs no other detector
PatternDetect ==
  /\ backend.op = "process" /\ backend.stage = "received"
  /\ backend' = [backend EXCEPT
                   !.stage = IF backend.input.mode = "standard"
                             THEN "merge" ELSE "calling"]
  /\ SessionUnchanged

\* the detector call is the only suspension point: it may answer ...
DetectorAnswers ==
  /\ backend.op = "process" /\ backend.stage = "calling"
  /\ \E found \in DetectedLists(StatisticalDetectorOf(backend.input.mode)) :
       backend' = [backend EXCEPT
                     !.statistical = [status |-> "ok", candidates |-> found],
                     !.stage = "merge"]
  /\ SessionUnchanged

\* ... or report that the capability is absent or cannot be connected to ...
DetectorUnavailable ==
  /\ backend.op = "process" /\ backend.stage = "calling"
  /\ backend' = [backend EXCEPT !.statistical = Unavailable, !.stage = "merge"]
  /\ SessionUnchanged

\* faulty variant: the call is not wrapped with a timeout
DetectorNeverTimesOut ==
  /\ FALSE
  /\ UNCHANGED vars

\* ... or stay silent until the timeout expires, which cancels the call
DetectorTimeout ==
  /\ backend.op = "process" /\ backend.stage = "calling"
  /\ backend' = [backend EXCEPT !.statistical = Unavailable, !.stage = "merge"]
  /\ SessionUnchanged

\* reconcile what the detectors that ran have found and answer
ReconcileAndReturn ==
  /\ backend.op = "process" /\ backend.stage = "merge"
  /\ backend' =
       [backend EXCEPT
          !.output =
            [status |-> "ok",
             entities |-> reconcile(ListsToReconcile(backend.input.patterns,
                                                     backend.input.mode,
                                                     backend.statistical)),
             mode_used |-> IF backend.statistical.status = "ok"
                           THEN backend.input.mode ELSE "standard"],
          !.stage = "returned",
          !.done = TRUE]
  /\ SessionUnchanged

ProcessNext ==
  \/ ReceiveProcess
  \/ PatternDetect
  \/ DetectorAnswers
  \/ DetectorUnavailable
  \/ DetectorTimeout
  \/ ReconcileAndReturn

\* the enabling condition of ReconcileAndReturn
MergeReady == backend.op = "process" /\ backend.stage = "merge"

\* weak fairness of ReconcileAndReturn, WF_vars(ReconcileAndReturn), with
\* ENABLED <<ReconcileAndReturn>>_vars written out as MergeReady
FairReturn == []<>~MergeReady \/ []<><<ReconcileAndReturn>>_vars

\* the server keeps running the request and the timer of the detector call
\* fires; the detector itself owes no answer
SpecProcess ==
  /\ InitProcess
  /\ [][ProcessNext]_vars
  /\ WF_vars(PatternDetect)
  /\ WF_vars(DetectorTimeout)
  /\ FairReturn

ProcessReceived == backend.op = "process" /\ backend.stage # "listening"

ProcessDone == backend.op = "process" /\ backend.done

\* the reconciled entities of the pattern detector alone
PatternEntitiesOnly ==
  reconcile([ d \in DOMAIN Detectors |->
                IF d = PatternDetectorIndex.detector
                THEN backend.input.patterns ELSE <<>> ])

\* C19: a process request always completes; when the statistical detector is
\* unavailable, cannot be connected to or exceeds its timeout, the request
\* still succeeds and returns exactly the reconciled PatternDetector entities.
C19_ProcessCompletesDegraded ==
  /\ ProcessReceived ~> ProcessDone
  /\ [](ProcessDone =>
          /\ backend.output.status = "ok"
          /\ backend.statistical.status # "ok"
               => backend.output.entities = PatternEntitiesOnly)

\* an advanced request whose detector gave nothing returned the one pattern
\* entity
C19_DegradedToPatterns ==
  /\ ProcessDone
  /\ backend.input.mode = "advanced"
  /\ backend.statistical.status = "unavailable"
  /\ Len(backend.output.entities) = 1
\* ------------------------------------------------------------------ SIRET validation
SiretLength == 14

MaxMutatedDigits == 1

\* the SIRET of the test sample text
SampleSiret ==
  <<"1", "2", "3", "4", "5", "6", "7", "8", "9", "0", "1", "2", "3", "4">>

DigitChars == { Digits[d + 1] : d \in 0..9 }

\* the digit strings that differ from the sample in at most MaxMutatedDigits
\* places
SiretCandidates ==
  UNION { { [ i \in 1..SiretLength |->
                IF i \in changed THEN digits[i] ELSE SampleSiret[i] ] :
              digits \in [changed -> DigitChars] } :
          changed \in { c \in SUBSET (1..SiretLength) :
                          Cardinality(c) <= MaxMutatedDigits } }

\* the sum over the k rightmost digits, every second one from the right
\* doubled and reduced to the sum of its digits
RECURSIVE LuhnSum(_, _)
LuhnSum(digits, k) ==
  IF k = 0 THEN 0
  ELSE LET d == DigitValue(digits[Len(digits) - k + 1])
           v == IF k % 2 = 0
                THEN (IF 2 * d > 9 THEN 2 * d - 9 ELSE 2 * d)
                ELSE d
       IN  v + LuhnSum(digits, k - 1)

\* faulty variant: no digit is doubled
RECURSIVE PlainSum(_, _)
PlainSum(digits, k) ==
  IF k = 0 THEN 0
  ELSE DigitValue(digits[Len(digits) - k + 1]) + PlainSum(digits, k - 1)

luhnWithoutDoubling(digits) == PlainSum(digits, Len(digits)) % 10 = 0

luhn(digits) == LuhnSum(digits, Len(digits)) % 10 = 0

\* PatternDetector on a 14-digit match: kept as a siret candidate only when
\* the checksum passes, discarded otherwise
detectSiret(match) ==
  IF /\ Len(match) = SiretLength
     /\ \A i \in DOMAIN match : IsDigit(match[i])
     /\ luhn(match)
  THEN << [type |-> "siret", text |-> match, source |-> "REGEX"] >>
  ELSE << >>

InitSiret ==
  /\ NoSession
  /\ \E match \in SiretCandidates : backend = Call("siret", match)

DetectSiret ==
  /\ backend.op = "siret"
  /\ ~backend.done
  /\ backend' = [backend EXCEPT !.output = detectSiret(backend.input), !.done = TRUE]
  /\ SessionUnchanged

SpecSiret == InitSiret /\ [][DetectSiret]_vars

SiretChecked == backend.op = "siret" /\ backend.done

SiretKept ==
  backend.output = << [type |-> "siret", text |-> backend.input, source |-> "REGEX"] >>

\* the checksum as stated, read from the left: the digit sum of twice a digit
DoubledDigit(d) == ((2 * d) \div 10) + ((2 * d) % 10)

\* with i counted from the left, the digit is doubled when an odd number of
\* digits stand to its right
RECURSIVE StatedSum(_, _)
StatedSum(digits, i) ==
  IF i > Len(digits) THEN 0
  ELSE (IF (Len(digits) - i) % 2 = 1
        THEN DoubledDigit(DigitValue(digits[i]))
        ELSE DigitValue(digits[i]))
       + StatedSum(digits, i + 1)

PassesStatedChecksum(digits) == StatedSum(digits, 1) % 10 = 0

C21_DashboardShowsCurrentDocument ==
  (currentPage = "dashboard" /\ ~document.isNull)
    => entities \in ProcessSets(document)
\* C23: whenever the dashboard page is shown a document is loaded, for every
\* interleaving of file drops, /process responses and clicks on
\* "Nouveau document".
C23_DashboardHasDocument ==
  currentPage = "dashboard" => ~document.isNull
\* ------------------------------------------------------------------ grouping selection
\* The handlers that change the grouping selection or replace the entity set,
\* started on the dashboard of a processed document.
GroupingNext ==
  \/ ClickGroupCheckbox
  \/ ClickDelete
  \/ ClickGroup
  \/ NewDocument
  \/ onDrop
  \/ readerOnload
  \/ processResponse
  \/ processError

SpecGrouping == InitStore /\ [][GroupingNext]_vars

\* C24: every id ticked for grouping is the id of an entity currently in the
\* store, after any sequence of grouping-checkbox changes, deleteEntity,
\* createGroup, "Nouveau document" and new uploads.
C24_SelectionRefersToStore ==
  selectedEntities \subseteq Ids(entities)
\* ------------------------------------------------------------------ curation frame
\* the handlers the curation of existing entities goes through
CurationNext ==
  \/ ClickToggle
  \/ SelectAllToggle
  \/ ClickEdit
  \/ EditKeyEnter
  \/ EditBlur
  \/ EditKeyEscape
  \/ ClickGroupCheckbox
  \/ ClickGroup

SpecCuration == InitStore /\ [][CurationNext]_vars

ToggleStep ==
  \/ \E id \in Ids(entities) : ToggleEntity(id)
  \/ SelectAllToggle

ReplacementStep ==
  \/ \E value \in EditorValues : CommitEdit(value)
  \/ \E answer \in PromptResults(PromptInputs) : CreateGroup(answer)

\* C25: toggleEntity, the select-all toggle, updateEntityReplacement and
\* createGroup neither add nor remove entities and leave id, text, type,
\* source, confidence and positions of every entity unchanged; a toggle changes
\* nothing but selected, an edit or a grouping nothing but replacement.
C25_CurationKeepsGeometry ==
  [][ /\ ToggleStep
        => /\ DOMAIN entities' = DOMAIN entities
           /\ \A i \in DOMAIN entities :
                entities'[i] = [entities[i] EXCEPT !.selected = entities'[i].selected]
      /\ ReplacementStep
        => /\ DOMAIN entities' = DOMAIN entities
           /\ \A i \in DOMAIN entities :
                entities'[i] =
                  [entities[i] EXCEPT !.replacement = entities'[i].replacement] ]_vars

\* an entity carries an edited replacement and was unticked afterwards or
\* before
C25_EditedAndUnticked ==
  \E i \in DOMAIN entities :
    /\ entities[i].replacement \in { <<"Y">>, <<" ", "Y">> }
    /\ ~entities[i].selected
\* ------------------------------------------------------------------ processing indicator
\* a request in flight ends: by an error (status, timeout, no connection) or
\* by an answer
requestCompletes == processError \/ processResponse

\* a started read ends: onload or onerror
readCompletes == readerOnload \/ readerOnerror

\* the upload flow where every read and every request in flight comes to an
\* end
SpecUploadFair ==
  /\ Init
  /\ [][UploadNext]_vars
  /\ WF_vars(readCompletes)
  /\ WF_vars(requestCompletes)

\* C26: whenever processing becomes true it eventually becomes false again,
\* whether the request succeeds, fails with an error status, times out or does
\* not connect, and also when reading a file fails.
C26_ProcessingClears == processing ~> ~processing

\* a file was read and sent, and the indicator is off again with nothing left
\* in flight
C26_ClearedAfterRequest ==
  /\ ~document.isNull
  /\ ~processing
  /\ pending = <<>>
  /\ reading = <<>>
\* C27: while at least one /process request has been sent and has not yet been
\* answered or failed, processing is true; the end of one request does not
\* clear the flag while another one is in flight.
C27_ProcessingWhileInFlight ==
  pending # <<>> => processing
\* ------------------------------------------------------------------ document generation
\* The dashboard of a processed document: selection changes, deletions and
\* the generation of the anonymised file.
GenerateNext ==
  \/ ClickToggle
  \/ SelectAllToggle
  \/ ClickDelete
  \/ GenerateDocument
  \/ GenerateResponse
  \/ GenerateError

SpecGenerate == InitStore /\ [][GenerateNext]_vars

\* C28: when "Generer DOCX" was clicked and /generate-document answers with
\* success, generateDocument triggers the download and shows the success
\* notification, and not the generation-error message, in every variant.
C28_GenerationSucceeds ==
  [][ GenerateResponse
        => /\ generation'.download
           /\ generation'.notice = "success" ]_vars
\* a POST /generate-document leaves the browser
RequestSent == generation.stage # "sent" /\ generation'.stage = "sent"

\* C29: in the installation_guide variant a /generate-document request is sent
\* only when the store holds at least one entity with selected = true; with
\* an empty entity set or with no selected entity a click sends no request
\* and changes no state (the answer to a request sent earlier still arrives).
C29_GuideSendsOnlyWithSelection ==
  [][ variant = "guide"
        => /\ RequestSent => \E i \in DOMAIN entities : entities[i].selected
           /\ ( /\ generation.stage # "sent"
                /\ \A i \in DOMAIN entities : ~entities[i].selected )
                => generation' = generation ]_vars

\* the guide sent a request while one entity was left out of the selection
C29_GuideSentPartialSelection ==
  /\ variant = "guide"
  /\ generation.stage = "sent"
  /\ \E i \in DOMAIN entities : ~entities[i].selected
  /\ \E i \in DOMAIN entities : entities[i].selected
\* ------------------------------------------------------------------ search and filter
SearchTerms == { <<>>, <<"A">>, <<"z">> }

SourceFilters == {"all", "REGEX", "NER", "OLLAMA", "MANUAL"}

\* onChange of the search box
SetSearchTerm ==
  /\ Dashboard
  /\ \E term \in SearchTerms : searchTerm' = term
  /\ UNCHANGED << sourceFilter, generation, backend, variant, currentMode, document,
                  entities, processing, currentPage, systemStatus, selectedEntities,
                  editingEntity, showManualAdd, healthPending, reading, pending,
                  drops >>

\* onChange of the source select
SetSourceFilter ==
  /\ Dashboard
  /\ \E source \in SourceFilters : sourceFilter' = source
  /\ UNCHANGED << searchTerm, generation, backend, variant, currentMode, document,
                  entities, processing, currentPage, systemStatus, selectedEntities,
                  editingEntity, showManualAdd, healthPending, reading, pending,
                  drops >>

\* the big checkbox of a card: only the entities shown have one
ClickShownToggle == \E id \in Ids(filteredEntities) : ToggleEntity(id)

\* the delete button of a card
ClickShownDelete ==
  \E id \in Ids(filteredEntities), confirmed \in BOOLEAN : DeleteEntity(id, confirmed)

FilterNext ==
  \/ SetSearchTerm
  \/ SetSourceFilter
  \/ ClickShownToggle
  \/ ClickShownDelete
  \/ SelectAllToggle

SpecFilter == InitStore /\ [][FilterNext]_vars

\* C30: whatever the search term and the source filter are, the select-all
\* toggle unselects every entity of the store when all were selected and
\* selects every entity otherwise, hidden ones included, changes nothing else,
\* and leaves an empty store empty.
C30_SelectAllCoversStore ==
  [][ SelectAllToggle
        => /\ DOMAIN entities' = DOMAIN entities
           /\ \A i \in DOMAIN entities :
                /\ entities'[i].selected =
                     (\E j \in DOMAIN entities : ~entities[j].selected)
                /\ entities'[i] = [entities[i] EXCEPT !.selected = entities'[i].selected]
           /\ \A i \in DOMAIN entities' : \A j \in DOMAIN entities' :
                entities'[i].selected = entities'[j].selected ]_vars

\* the filter hides an entity and the whole store, hidden entities included,
\* is unselected
C30_HiddenEntityUnselected ==
  /\ Len(entities) >= 2
  /\ Len(filteredEntities) < Len(entities)
  /\ \A i \in DOMAIN entities : ~entities[i].selected
\* ------------------------------------------------------------------ dropped candidates
\* C22: for every candidate the sweep drops, the result of reconcile contains
\* an entity whose span overlaps the span of the dropped candidate.
C22_DroppedCandidateHasWitness ==
  Reconciled =>
    \A c \in DOMAIN Arrived :
      \E i \in DOMAIN backend.output :
        \E p \in Positions(backend.output[i]) : Overlaps(p, Arrived[c])
====
